---- MODULE Spec2Model ----
(***************************************************************************)
(* A model of the NBT codec (src/nbt_py/nbtio.py), its tag objects         *)
(* (src/nbt_py/core.py) and the tree query layer (src/nbt_py/filter.py,    *)
(* src/nbt_py/util.py).                                                    *)
(*                                                                         *)
(* Representation of Python values:                                        *)
(*   None                     [none |-> TRUE]                              *)
(*   int                      [i |-> n]                                    *)
(*   float                    [f |-> the IEEE bytes, big-endian]           *)
(*   str                      [s |-> sequence of code points]              *)
(*   list of payload values   [items |-> sequence of values]               *)
(*   list of NBTTag objects   [ids |-> sequence of object ids]             *)
(* NBTTag objects live in a heap (a sequence of records); an object id is  *)
(* its index in the heap, in creation order.  A byte is an integer 0..255. *)
(* Python integers are unbounded; the byte chunks the model feeds keep     *)
(* every decoded integer within 32 bits.                                   *)
(***************************************************************************)
EXTENDS Integers, Sequences, FiniteSets, TLC

VARIABLES
    stream,  \* the bytes of the file being read
    fed,     \* the number of chunks the file was made of
    pc,      \* the program's position
    dec,     \* what _read_tag(stream) gave
    enc,     \* what _write_tag of the tree read gave
    redec,   \* what _read_tag of the bytes written gave
    look,    \* the call of get_lookup made on the tree read, and what it gave
    find,    \* the call of find_tags made on the tree read, and what it gave
    mut,     \* the assignment made to the payload of a tag found
    offset,  \* the offset of the file while _read_tag is running
    stack,   \* the loops of __read_tag_payload that _read_tag is inside of
    dict,    \* what nbt_to_dict of the tree read gave
    fs,      \* the files: the content at each path, or Absent
    save     \* the call of save_nbt_file made, and what it gave

vars == <<stream, fed, pc, dec, enc, redec, look, find, mut, offset, stack, dict, fs, save>>

-----------------------------------------------------------------------------
(* core.py *)

TAG_End == 0
TAG_Byte == 1
TAG_Short == 2
TAG_Int == 3
TAG_Long == 4
TAG_Float == 5
TAG_Double == 6
TAG_Byte_Array == 7
TAG_String == 8
TAG_List == 9
TAG_Compound == 10
TAG_Int_Array == 11
TAG_Long_Array == 12

\* The values of the TagTypes enumeration: TagTypes(n) raises for any other n.
TagTypes == TAG_End .. TAG_Long_Array

TAG_TYPE_BYTE_LENGTHS == [t \in TagTypes |->
    CASE t = TAG_End -> -1
      [] t = TAG_Byte -> 1
      [] t = TAG_Short -> 2
      [] t = TAG_Int -> 4
      [] t = TAG_Long -> 8
      [] t = TAG_Float -> 4
      [] t = TAG_Double -> 8
      [] OTHER -> 0]

INTEGER_TYPES == {TAG_Byte, TAG_Short, TAG_Int, TAG_Long}

LIST_TYPES == {TAG_List, TAG_Int_Array, TAG_Long_Array}

\* '_'
FULLY_QUALIFIED_SEPARATOR == 95

None == [none |-> TRUE]

EMPTY_NAME == None

\* list_type of a tag that has none, and the parent of a tag that has none.
NoType == -1
NoParent == 0

IsNone(v) == "none" \in DOMAIN v
IsInt(v) == "i" \in DOMAIN v
IsStr(v) == "s" \in DOMAIN v
IsItems(v) == "items" \in DOMAIN v
IsIds(v) == "ids" \in DOMAIN v
IsFloat(v) == "f" \in DOMAIN v

\* Python truthiness of a name: None and '' are false.
Truthy(v) == IsStr(v) /\ v.s # <<>>

\* Python truthiness of any value of the model.
PyTrue(v) ==
    CASE IsNone(v) -> FALSE
      [] IsInt(v) -> v.i # 0
      [] IsStr(v) -> v.s # <<>>
      [] IsItems(v) -> v.items # <<>>
      [] IsIds(v) -> v.ids # <<>>
      [] OTHER -> TRUE

\* NBTTag.create(type, name, payload): parent and list_type start as None.
NBTTag_create(type, name, payload) ==
    [type |-> type, name |-> name, payload |-> payload,
     parent |-> NoParent, list_type |-> NoType]

-----------------------------------------------------------------------------
(* Bytes, integers and strings *)

Min(a, b) == IF a < b THEN a ELSE b

\* K applied to the value of v: names a value that is used more than once.
With(v, K(_)) == CHOOSE y \in { K(x) : x \in {v} } : TRUE

\* file.read(n) at offset pos: at most n bytes, fewer at the end of the
\* stream, all the rest when n is negative.
FileRead(bytes, pos, n) ==
    IF n < 0 THEN SubSeq(bytes, pos + 1, Len(bytes))
    ELSE SubSeq(bytes, pos + 1, Min(pos + n, Len(bytes)))

RECURSIVE FromBytesUnsigned(_)
FromBytesUnsigned(data) ==
    IF data = <<>> THEN 0
    ELSE FromBytesUnsigned(SubSeq(data, 1, Len(data) - 1)) * 256 + data[Len(data)]

\* int.from_bytes(data, 'big', signed=True): of the bytes given, however few.
RECURSIVE FoldBytes(_, _, _)
FoldBytes(acc, data, k) ==
    IF k > Len(data) THEN acc ELSE FoldBytes(acc * 256 + data[k], data, k + 1)

FromBytesSigned(data) ==
    IF data = <<>> THEN 0
    ELSE FoldBytes(IF data[1] >= 128 THEN data[1] - 256 ELSE data[1], data, 2)

\* value.to_bytes(n, 'big', signed=True) raises OverflowError outside the range.
InSignedRange(v, n) ==
    CASE n = 1 -> v >= -128 /\ v <= 127
      [] n = 2 -> v >= -32768 /\ v <= 32767
      [] OTHER -> TRUE

RECURSIVE ToBytesSigned(_, _)
ToBytesSigned(v, n) ==
    IF n = 0 THEN <<>>
    ELSE ToBytesSigned(v \div 256, n - 1) \o <<v % 256>>

\* __read_nbt_int
read_nbt_int(bytes, pos, byte_length) ==
    LET data == FileRead(bytes, pos, byte_length)
    IN  [pos |-> pos + Len(data), val |-> FromBytesSigned(data)]

\* __write_nbt_int: the bytes written, or an error.
write_nbt_int(value, byte_length) ==
    IF ~IsInt(value) \/ ~InSignedRange(value.i, byte_length)
    THEN [err |-> TRUE, out |-> <<>>]
    ELSE [err |-> FALSE, out |-> ToBytesSigned(value.i, byte_length)]

IsCont(b) == b >= 128 /\ b <= 191

\* bytes.decode('utf-8'), strict: the code points, or an error.
RECURSIVE Utf8Decode(_)
Utf8Decode(b) ==
    IF b = <<>> THEN [err |-> FALSE, s |-> <<>>]
    ELSE
    LET b1 == b[1]
        n == Len(b)
        w == CASE b1 < 128 -> 1
               [] b1 >= 194 /\ b1 <= 223 -> 2
               [] b1 >= 224 /\ b1 <= 239 -> 3
               [] b1 >= 240 /\ b1 <= 244 -> 4
               [] OTHER -> 0
        ok == /\ w > 0
              /\ n >= w
              /\ \A k \in 2..w : IsCont(b[k])
              /\ (b1 = 224 => b[2] >= 160)
              /\ (b1 = 237 => b[2] <= 159)
              /\ (b1 = 240 => b[2] >= 144)
              /\ (b1 = 244 => b[2] <= 143)
        cp == CASE w = 1 -> b1
                [] w = 2 -> (b1 - 192) * 64 + (b[2] - 128)
                [] w = 3 -> (b1 - 224) * 4096 + (b[2] - 128) * 64 + (b[3] - 128)
                [] OTHER -> (b1 - 240) * 262144 + (b[2] - 128) * 4096
                            + (b[3] - 128) * 64 + (b[4] - 128)
    IN  IF ~ok THEN [err |-> TRUE, s |-> <<>>]
        ELSE With(SubSeq(b, w + 1, n), LAMBDA tail :
             With(Utf8Decode(tail), LAMBDA rest :
                [err |-> rest.err, s |-> <<cp>> \o rest.s]))

\* str.encode('utf-8')
RECURSIVE Utf8Encode(_)
Utf8Encode(s) ==
    IF s = <<>> THEN <<>>
    ELSE
    LET c == s[1]
        e == CASE c < 128 -> <<c>>
               [] c < 2048 -> <<192 + (c \div 64), 128 + (c % 64)>>
               [] c < 65536 -> <<224 + (c \div 4096), 128 + ((c \div 64) % 64),
                                 128 + (c % 64)>>
               [] OTHER -> <<240 + (c \div 262144), 128 + ((c \div 4096) % 64),
                             128 + ((c \div 64) % 64), 128 + (c % 64)>>
    IN  e \o Utf8Encode(Tail(s))

\* A __read_nbt_string that gives the empty string for the length 0.
read_nbt_string_literal(bytes, pos) ==
    With(FileRead(bytes, pos, 2), LAMBDA lenBytes :
    IF Len(lenBytes) # 2 THEN [err |-> TRUE, pos |-> pos + Len(lenBytes), val |-> None]
    ELSE
    With(FileRead(bytes, pos + 2, FromBytesUnsigned(lenBytes)), LAMBDA raw :
    IF Len(raw) # FromBytesUnsigned(lenBytes)
    THEN [err |-> TRUE, pos |-> pos + 2 + Len(raw), val |-> None]
    ELSE
    With(Utf8Decode(raw), LAMBDA d :
    IF d.err THEN [err |-> TRUE, pos |-> pos + 2 + Len(raw), val |-> None]
    ELSE [err |-> FALSE, pos |-> pos + 2 + Len(raw), val |-> [s |-> d.s]])))

\* __read_nbt_string: struct.unpack raises unless it is given exactly the
\* bytes its format names.
read_nbt_string(bytes, pos) ==
    With(FileRead(bytes, pos, 2), LAMBDA lenBytes :
    IF Len(lenBytes) # 2 THEN [err |-> TRUE, pos |-> pos + Len(lenBytes), val |-> None]
    ELSE
    With(FromBytesUnsigned(lenBytes), LAMBDA length :
    IF length = 0 THEN [err |-> FALSE, pos |-> pos + 2, val |-> EMPTY_NAME]
    ELSE
    With(FileRead(bytes, pos + 2, length), LAMBDA raw :
    IF Len(raw) # length THEN [err |-> TRUE, pos |-> pos + 2 + Len(raw), val |-> None]
    ELSE
    With(Utf8Decode(raw), LAMBDA d :
    IF d.err THEN [err |-> TRUE, pos |-> pos + 2 + length, val |-> None]
    ELSE [err |-> FALSE, pos |-> pos + 2 + length, val |-> [s |-> d.s]]))))

\* __write_nbt_string: the length is the number of characters, and
\* struct.pack('>{length}s', ...) keeps that many bytes of the encoding.
\* A value that is true (so len() is taken of it) and is no str raises.
write_nbt_string(str) ==
    LET length == IF Truthy(str) THEN Len(str.s) ELSE 0
        w == write_nbt_int([i |-> length], 2)
    IN  IF PyTrue(str) /\ ~IsStr(str) THEN [err |-> TRUE, out |-> <<>>]
        ELSE IF w.err THEN w
        ELSE IF length = 0 THEN w
        ELSE [err |-> FALSE, out |-> w.out \o SubSeq(Utf8Encode(str.s), 1, length)]

-----------------------------------------------------------------------------
(* nbtio.py: the decoder.  Every reader returns a record                   *)
(*   [err, pos, heap, val, ltype, id]                                      *)
(* err: an exception was raised; pos: the stream offset afterwards; heap:  *)
(* the NBTTag objects created so far; val / ltype: the payload and list    *)
(* item type returned by __read_tag_payload; id: the NBTTag returned.      *)

Raised(pos, heap) ==
    [err |-> TRUE, pos |-> pos, heap |-> heap, val |-> None, ltype |-> NoType, id |-> 0]

Payload(pos, heap, val, ltype) ==
    [err |-> FALSE, pos |-> pos, heap |-> heap, val |-> val, ltype |-> ltype, id |-> 0]

\* The parent reference of every object of ids set to parent.
SetParents(heap, ids, parent) ==
    [k \in 1..Len(heap) |->
        IF \E j \in 1..Len(ids) : ids[j] = k
        THEN [heap[k] EXCEPT !.parent = parent] ELSE heap[k]]

RECURSIVE read_tag(_, _, _)
RECURSIVE parse_tag_content(_, _, _, _)
RECURSIVE read_tag_payload(_, _, _, _)
RECURSIVE read_list_items(_, _, _, _, _, _)
RECURSIVE read_children(_, _, _, _)

\* __read_tag_payload, lines 138-140: for i in range(list_length).
read_list_items(bytes, pos, heap, list_tag_type, remaining, items) ==
    IF remaining <= 0 THEN Payload(pos, heap, [items |-> items], list_tag_type)
    ELSE With(read_tag_payload(bytes, pos, heap, list_tag_type), LAMBDA r :
         IF r.err THEN r
         ELSE read_list_items(bytes, r.pos, r.heap, list_tag_type,
                              remaining - 1, Append(items, r.val)))

\* __read_tag_payload, lines 146-159: while get_next.
read_children(bytes, pos, heap, children) ==
    With(read_tag(bytes, pos, heap), LAMBDA child :
    IF child.err THEN child
    ELSE IF child.heap[child.id].type = TAG_End
         THEN Payload(child.pos, child.heap, [ids |-> children], NoType)
         ELSE read_children(bytes, child.pos, child.heap, Append(children, child.id)))

\* __read_tag_payload
read_tag_payload(bytes, pos, heap, tag_type) ==
    CASE tag_type = TAG_End -> Raised(pos, heap)
      [] tag_type \in INTEGER_TYPES ->
            LET r == read_nbt_int(bytes, pos, TAG_TYPE_BYTE_LENGTHS[tag_type])
            IN  Payload(r.pos, heap, [i |-> r.val], NoType)
      [] tag_type \in {TAG_Float, TAG_Double} ->
            LET data == FileRead(bytes, pos, TAG_TYPE_BYTE_LENGTHS[tag_type])
            IN  IF Len(data) # TAG_TYPE_BYTE_LENGTHS[tag_type]
                THEN Raised(pos + Len(data), heap)
                ELSE Payload(pos + Len(data), heap, [f |-> data], NoType)
      [] tag_type = TAG_Byte_Array ->
            With(read_nbt_int(bytes, pos, 4), LAMBDA size :
            With(FileRead(bytes, size.pos, size.val), LAMBDA data :
                \* "data, = file.read(size)" unpacks exactly one byte.
                IF Len(data) # 1 THEN Raised(size.pos + Len(data), heap)
                ELSE Payload(size.pos + 1, heap, [i |-> data[1]], NoType)))
      [] tag_type = TAG_String ->
            With(read_nbt_string(bytes, pos), LAMBDA r :
                IF r.err THEN Raised(r.pos, heap)
                ELSE Payload(r.pos, heap, r.val, NoType))
      [] tag_type \in LIST_TYPES ->
            With(IF tag_type = TAG_List THEN read_nbt_int(bytes, pos, 1)
                 ELSE [pos |-> pos,
                       val |-> IF tag_type = TAG_Int_Array THEN TAG_Int ELSE TAG_Long],
                 LAMBDA t :
                IF t.val \notin TagTypes THEN Raised(t.pos, heap)
                ELSE With(read_nbt_int(bytes, t.pos, 4), LAMBDA list_length :
                     IF t.val = TAG_End
                     THEN Payload(list_length.pos, heap, [items |-> <<>>], NoType)
                     ELSE read_list_items(bytes, list_length.pos, heap, t.val,
                                          list_length.val, <<>>)))
      [] tag_type = TAG_Compound -> read_children(bytes, pos, heap, <<>>)

\* __parse_tag_content
parse_tag_content(bytes, pos, heap, tag_type) ==
    With(IF tag_type = TAG_End
         THEN [err |-> FALSE, pos |-> pos, val |-> EMPTY_NAME]
         ELSE read_nbt_string(bytes, pos), LAMBDA name :
    With(IF tag_type = TAG_End THEN Payload(pos, heap, None, NoType)
         ELSE IF name.err THEN Raised(name.pos, heap)
         ELSE read_tag_payload(bytes, name.pos, heap, tag_type), LAMBDA p :
    IF p.err THEN p
    ELSE
    LET created == NBTTag_create(tag_type, name.val, p.val)
        result == IF tag_type = TAG_List
                  THEN [created EXCEPT !.list_type = p.ltype] ELSE created
        id == Len(p.heap) + 1
    IN  [err |-> FALSE, pos |-> p.pos,
         heap |-> IF tag_type = TAG_Compound
                  THEN SetParents(Append(p.heap, result), p.val.ids, id)
                  ELSE Append(p.heap, result),
         val |-> None, ltype |-> NoType, id |-> id]))

\* _read_tag
read_tag(bytes, pos, heap) ==
    With(read_nbt_int(bytes, pos, 1), LAMBDA byte_tag_type :
        IF byte_tag_type.val \notin TagTypes THEN Raised(byte_tag_type.pos, heap)
        ELSE parse_tag_content(bytes, byte_tag_type.pos, heap, byte_tag_type.val))

-----------------------------------------------------------------------------
(* nbtio.py: the encoder.  Every writer returns [err, out]: whether an     *)
(* exception was raised, and the bytes written to the file until then.     *)

Written(out) == [err |-> FALSE, out |-> out]

\* What w wrote, then (unless w raised) what next wrote.
Then(w, next) ==
    IF w.err THEN w ELSE [err |-> next.err, out |-> w.out \o next.out]

RECURSIVE write_tag(_, _)
RECURSIVE write_tag_payload(_, _)
RECURSIVE write_list_items(_, _, _, _)
RECURSIVE write_children(_, _, _)

\* __write_tag_payload, lines 257-259: for item in payload.
write_list_items(heap, list_tag_type, items, k) ==
    IF k > Len(items) THEN Written(<<>>)
    ELSE LET child_tag == NBTTag_create(list_tag_type, None, items[k])
         IN  Then(write_tag_payload(heap, child_tag),
                  write_list_items(heap, list_tag_type, items, k + 1))

\* __write_tag_payload, lines 264-265: for child in payload.
write_children(heap, ids, k) ==
    IF k > Len(ids) THEN Written(<<>>)
    ELSE Then(write_tag(heap, heap[ids[k]]), write_children(heap, ids, k + 1))

\* __write_tag_payload, lines 220-227: len() raises for a payload that is no
\* list, value.to_bytes for an item outside -128..127.
write_byte_array(payload) ==
    IF ~IsItems(payload) THEN [err |-> TRUE, out |-> <<>>]
    ELSE Then(Written(ToBytesSigned(Len(payload.items), 4)),
              write_list_items(<<>>, TAG_Byte, payload.items, 1))

\* __write_tag_payload
write_tag_payload(heap, nbt_tag) ==
    LET tag_type == nbt_tag.type
        payload == nbt_tag.payload
    IN  CASE tag_type \in INTEGER_TYPES ->
                write_nbt_int(payload, TAG_TYPE_BYTE_LENGTHS[tag_type])
          [] tag_type \in {TAG_Float, TAG_Double} ->
                \* struct.pack of the float that struct.unpack gave
                IF IsFloat(payload) /\ Len(payload.f) = TAG_TYPE_BYTE_LENGTHS[tag_type]
                THEN Written(payload.f) ELSE [err |-> TRUE, out |-> <<>>]
          [] tag_type = TAG_Byte_Array -> write_byte_array(payload)
          [] tag_type = TAG_String -> write_nbt_string(payload)
          [] tag_type \in LIST_TYPES ->
                IF tag_type = TAG_List /\ nbt_tag.list_type = NoType
                THEN \* "Empty list, type is TAG_End": one byte, then return
                     write_nbt_int([i |-> TAG_End], 1)
                ELSE
                LET list_tag_type == CASE tag_type = TAG_List -> nbt_tag.list_type
                                       [] tag_type = TAG_Int_Array -> TAG_Int
                                       [] OTHER -> TAG_Long
                    head == IF tag_type = TAG_List
                            THEN write_nbt_int([i |-> list_tag_type], 1)
                            ELSE Written(<<>>)
                IN  IF ~IsItems(payload) THEN [err |-> TRUE, out |-> head.out]
                    ELSE Then(head,
                         Then(Written(ToBytesSigned(Len(payload.items), 4)),
                              write_list_items(heap, list_tag_type, payload.items, 1)))
          [] tag_type = TAG_Compound ->
                IF ~IsIds(payload) THEN [err |-> TRUE, out |-> <<>>]
                ELSE Then(write_children(heap, payload.ids, 1),
                          write_tag(heap, NBTTag_create(TAG_End, None, None)))
          [] OTHER -> Written(<<>>)

\* _write_tag
write_tag(heap, nbt_tag) ==
    Then(write_nbt_int([i |-> nbt_tag.type], 1),
         Then(write_nbt_string(nbt_tag.name),
              write_tag_payload(heap, nbt_tag)))

-----------------------------------------------------------------------------
(* util.py and filter.py: the tree query layer.  A dict is a sequence of   *)
(* entries [k |-> key, v |-> object id] with distinct keys, in insertion   *)
(* order.                                                                  *)

DictHas(d, key) == \E j \in 1..Len(d) : d[j].k = key

DictGet(d, key) == d[CHOOSE j \in 1..Len(d) : d[j].k = key].v

\* d[key] = value: in place when the key is there, else at the end.
DictSet(d, key, value) ==
    IF DictHas(d, key)
    THEN [j \in 1..Len(d) |-> IF d[j].k = key THEN [k |-> key, v |-> value] ELSE d[j]]
    ELSE Append(d, [k |-> key, v |-> value])

\* d.pop(key): d without the entry.
DictPop(d, key) == SelectSeq(d, LAMBDA e : e.k # key)

\* _get_full_qualified_name, lines 47-49: while the tag has a parent with a
\* name that is true, the parent's name and the separator are put in front.
RECURSIVE qualify(_, _, _, _)
qualify(heap, current_tag, name, separator) ==
    IF heap[current_tag].parent # NoParent
       /\ Truthy(heap[heap[current_tag].parent].name)
    THEN qualify(heap, heap[current_tag].parent,
                 heap[heap[current_tag].parent].name.s \o <<separator>> \o name,
                 separator)
    ELSE name

\* _get_full_qualified_name, of a tag that has a name
get_full_qualified_name(heap, nb_tag) ==
    qualify(heap, nb_tag, heap[nb_tag].name.s, FULLY_QUALIFIED_SEPARATOR)

\* An nbt_to_dict that does not go into compounds: every member gives its payload.
member_payload(heap, member) == heap[member].payload

RECURSIVE nbt_to_dict(_, _)

\* nbt_to_dict, line 31: nbt_to_dict(member) if is_compound else
\* member.payload.  A nested dict is the record [dict |-> entries].
member_value(heap, member) ==
    IF heap[member].type = TAG_Compound
    THEN [dict |-> nbt_to_dict(heap, member)]
    ELSE heap[member].payload

RECURSIVE dict_members(_, _, _, _)
\* nbt_to_dict, lines 29-31: for member in nbt_tag.payload.
dict_members(heap, ids, k, result) ==
    IF k > Len(ids) THEN result
    ELSE With(member_value(heap, ids[k]), LAMBDA v :
              dict_members(heap, ids, k + 1,
                           DictSet(result, heap[ids[k]].name, v)))

\* nbt_to_dict(nbt_tag)
nbt_to_dict(heap, nbt_tag) ==
    dict_members(heap, heap[nbt_tag].payload.ids, 1, <<>>)

\* A get_lookup that never raises: a duplicate key is overwritten.
merge_entry_overwrite(heap, result, entry, all_fully_qualified) ==
    [err |-> FALSE, d |-> DictSet(result, entry.k, entry.v)]

\* get_lookup, lines 33-41: one entry of a child's lookup put in result.
merge_entry(heap, result, entry, all_fully_qualified) ==
    IF DictHas(result, entry.k)
    THEN IF all_fully_qualified THEN [err |-> TRUE, d |-> result]
         ELSE LET existing_duplicate == DictGet(result, entry.k)
                  popped == DictPop(result, entry.k)
                  moved == DictSet(popped,
                               get_full_qualified_name(heap, existing_duplicate),
                               existing_duplicate)
              IN  [err |-> FALSE,
                   d |-> DictSet(moved, get_full_qualified_name(heap, entry.v), entry.v)]
    ELSE [err |-> FALSE, d |-> DictSet(result, entry.k, entry.v)]

RECURSIVE merge_entries(_, _, _, _, _)
\* get_lookup, line 32: for child_key, child_value in child_dict.items().
merge_entries(heap, result, child_dict, j, all_fully_qualified) ==
    IF j > Len(child_dict) THEN [err |-> FALSE, d |-> result]
    ELSE With(merge_entry(heap, result, child_dict[j], all_fully_qualified),
              LAMBDA m :
              IF m.err THEN m
              ELSE merge_entries(heap, m.d, child_dict, j + 1, all_fully_qualified))

RECURSIVE get_lookup(_, _, _)
RECURSIVE lookup_children(_, _, _, _, _)

\* get_lookup, lines 30-31: for child in payload.
lookup_children(heap, ids, k, result, all_fully_qualified) ==
    IF k > Len(ids) THEN [err |-> FALSE, d |-> result]
    ELSE With(get_lookup(heap, ids[k], all_fully_qualified), LAMBDA child_dict :
         IF child_dict.err THEN child_dict
         ELSE With(merge_entries(heap, result, child_dict.d, 1, all_fully_qualified),
                   LAMBDA m :
                   IF m.err THEN m
                   ELSE lookup_children(heap, ids, k + 1, m.d, all_fully_qualified)))

\* get_lookup: [err, d], err when it raises.
get_lookup(heap, nbt_tag, all_fully_qualified) ==
    LET tag == heap[nbt_tag]
        result == IF Truthy(tag.name)
                  THEN <<[k |-> IF all_fully_qualified
                                THEN get_full_qualified_name(heap, nbt_tag)
                                ELSE tag.name.s,
                          v |-> nbt_tag]>>
                  ELSE <<>>
    IN  IF tag.type = TAG_Compound
        THEN lookup_children(heap, tag.payload.ids, 1, result, all_fully_qualified)
        ELSE [err |-> FALSE, d |-> result]

\* str.lower(), of one character (ASCII and Latin-1 letters).
LowerChar(c) ==
    IF (c >= 65 /\ c <= 90) \/ (c >= 192 /\ c <= 222 /\ c # 215) THEN c + 32 ELSE c

lower(str) == [j \in 1..Len(str) |-> LowerChar(str[j])]

\* str.split(separator): the pieces between the separators, empty ones too.
RECURSIVE split_from(_, _, _, _)
split_from(str, separator, j, piece) ==
    IF j > Len(str) THEN <<piece>>
    ELSE IF str[j] = separator
         THEN <<piece>> \o split_from(str, separator, j + 1, <<>>)
         ELSE split_from(str, separator, j + 1, Append(piece, str[j]))

split(str, separator) == split_from(str, separator, 1, <<>>)

\* "a in b" of two strings.
str_in(a, b) ==
    \E j \in 0..(Len(b) - Len(a)) : SubSeq(b, j + 1, j + Len(a)) = a

\* "a in b" of a value and a list.
list_in(a, b) == \E j \in 1..Len(b) : b[j] = a

\* A find_tags loop body that keeps an entry only when every supplied filter
\* matches it.
find_step_all(heap, f, entry, types, case_insensitive) ==
    LET key == IF case_insensitive THEN lower(entry.k) ELSE entry.k
        name_parts == split(key, FULLY_QUALIFIED_SEPARATOR)
        key_name == name_parts[Len(name_parts)]
        parents_name == SubSeq(name_parts, 1, Len(name_parts) - 1)
        name_like == IF PyTrue(f.name_like) /\ case_insensitive
                     THEN [s |-> lower(f.name_like.s)] ELSE f.name_like
        parents_like == IF PyTrue(f.parents_like) /\ case_insensitive
                        THEN [s |-> lower(f.parents_like.s)] ELSE f.parents_like
        name_ok == PyTrue(f.name_like) => str_in(name_like.s, key_name)
        parents_ok == PyTrue(f.parents_like) => list_in(parents_like.s, parents_name)
        types_ok == PyTrue(types) => list_in(heap[entry.v].type, types.items)
        any == PyTrue(f.name_like) \/ PyTrue(f.parents_like) \/ PyTrue(types)
    IN  [name_like |-> name_like,
         parents_like |-> parents_like,
         result |-> IF any /\ name_ok /\ parents_ok /\ types_ok
                    THEN Append(f.result, entry.v) ELSE f.result]

\* find_tags, lines 63-92: the loop body for one entry of the lookup.  f is
\* [name_like, parents_like, result]: the variables the loop assigns.
find_step(heap, f, entry, types, case_insensitive) ==
    LET key == IF case_insensitive THEN lower(entry.k) ELSE entry.k
        has_sep == list_in(FULLY_QUALIFIED_SEPARATOR, key)
        name_parts == split(key, FULLY_QUALIFIED_SEPARATOR)
        key_name == IF has_sep THEN name_parts[Len(name_parts)] ELSE key
        parents_name == IF has_sep
                        THEN [items |-> SubSeq(name_parts, 1, Len(name_parts) - 1)]
                        ELSE None
        name_like == IF PyTrue(f.name_like) /\ case_insensitive
                     THEN [s |-> lower(f.name_like.s)] ELSE f.name_like
        name_hit == PyTrue(f.name_like) /\ str_in(name_like.s, key_name)
        parents_tried == ~name_hit /\ PyTrue(f.parents_like) /\ PyTrue(parents_name)
        parents_like == IF parents_tried /\ case_insensitive
                        THEN [s |-> lower(f.parents_like.s)] ELSE f.parents_like
        parents_hit == parents_tried /\ list_in(parents_like.s, parents_name.items)
        types_hit == /\ ~name_hit
                     /\ ~parents_hit
                     /\ PyTrue(types)
                     /\ list_in(heap[entry.v].type, types.items)
    IN  [name_like |-> name_like,
         parents_like |-> parents_like,
         result |-> IF name_hit \/ parents_hit \/ types_hit
                    THEN Append(f.result, entry.v) ELSE f.result]

RECURSIVE find_loop(_, _, _, _, _, _)
\* find_tags, line 62: for key, value in lookup.items().
find_loop(heap, f, lookup, j, types, case_insensitive) ==
    IF j > Len(lookup) THEN f.result
    ELSE find_loop(heap, find_step(heap, f, lookup[j], types, case_insensitive),
                   lookup, j + 1, types, case_insensitive)

\* find_tags: [err, result], err when get_lookup raises.
find_tags(heap, nbt_tag, name_like, parents_like, types, case_insensitive) ==
    With(get_lookup(heap, nbt_tag, TRUE), LAMBDA lookup :
        IF lookup.err THEN [err |-> TRUE, result |-> <<>>]
        ELSE [err |-> FALSE,
              result |-> find_loop(heap,
                                   [name_like |-> name_like,
                                    parents_like |-> parents_like,
                                    result |-> <<>>],
                                   lookup.d, 1, types, case_insensitive)])

-----------------------------------------------------------------------------
(* The program as a state machine: a file is produced chunk by chunk, then *)
(* read with _read_tag; the tree read is written back with _write_tag and  *)
(* the bytes written are read again.                                       *)

\* The most chunks a file is made of.
MaxChunks == 3

\* The most backup files there are beside a file before it is saved.
MaxBackups == 2

\* The pieces files are made of: tag headers, whole tags and odd bytes.
CodecChunks == {
    <<10, 0, 0>>,                                  \* Compound, no name
    <<10, 0, 1, 65>>,                              \* Compound "A"
    <<0>>,                                         \* End
    <<1, 0, 1, 120, 255>>,                         \* Byte "x" = -1
    <<3, 0, 1, 121, 255, 1>>,                      \* Int "y", 2 of 4 bytes
    <<9, 0, 1, 108, 0, 0, 0, 0, 0>>,               \* List "l", End x 0
    <<7, 0, 0, 0, 0, 0, 1>>,                       \* Byte_Array, size 1
    <<9, 0, 0, 9, 0, 0, 0, 1, 1, 0, 0, 0, 1, 7>>,  \* List of List of Byte
    <<9, 0, 0, 9, 0, 0, 0, 1, 13>>,                \* List of List of no tag type
    <<9, 0, 0, 10, 0, 0, 0, 1>>,                   \* List of Compound x 1
    <<8, 0, 1, 115, 0, 2, 195, 169>>,              \* String "s" = e-acute
    <<9, 0, 0, 13>>,                               \* List of no tag type
    <<13>> }                                       \* no tag type

\* The tags the files of the query runs are made of, inside the root.
QueryChunks == {
    <<10, 0, 1, 65, 1, 0, 1, 120, 1, 0>>,          \* Compound "A" {Byte "x"}
    <<10, 0, 1, 66, 1, 0, 1, 120, 2, 0>>,          \* Compound "B" {Byte "x"}
    <<10, 0, 1, 66, 1, 0, 3, 65, 95, 120, 4, 0>>,  \* Compound "B" {Byte "A_x"}
    <<10, 0, 1, 97, 3, 0, 1, 120, 0, 0, 0, 3, 0>>, \* Compound "a" {Int "x"}
    <<1, 0, 3, 65, 95, 120, 4>>,                   \* Byte "A_x"
    <<2, 0, 1, 120, 0, 5>>,                        \* Short "x"
    <<10, 0, 1, 66>> }                             \* Compound "B", left open

\* The root headers of those files: a Compound with no name, or named "R".
QueryRoots == { <<10, 0, 0>>, <<10, 0, 1, 82>> }

\* The arguments find_tags is called with.
NameLikes == { None, [s |-> <<>>], [s |-> <<97>>], [s |-> <<120>>] }
ParentsLikes == { None, [s |-> <<97>>], [s |-> <<66>>] }
TypesLists == { None, [items |-> <<TAG_Byte, TAG_Compound>>] }

NotRun == [err |-> FALSE, heap |-> <<>>, root |-> 0]

NoLookup == [all_fully_qualified |-> FALSE, err |-> FALSE, d |-> <<>>]

NoFind == [name_like |-> None, parents_like |-> None, types |-> None,
           case_insensitive |-> TRUE, err |-> FALSE, result |-> <<>>]

NotWritten == [err |-> FALSE, out |-> <<>>]

NoMutation == [id |-> 0, payload |-> None]

NoDict == <<>>

\* The content of a path where no file is.
Absent == [absent |-> TRUE]

\* save_nbt_file's filepath, and the paths __get_backup_filepath can give:
\* the base, then the base with the number put after it.
Target == [bak |-> FALSE, number |-> 0]
BackupPath(number) == [bak |-> TRUE, number |-> number]

Paths == {Target} \cup { BackupPath(number) : number \in 0..MaxBackups }

NoFiles == [path \in Paths |-> Absent]

NotSaved == [gzipped |-> TRUE, override |-> FALSE, create_backup |-> TRUE,
             open_fails |-> FALSE, before |-> NoFiles, backup |-> None,
             raised |-> FALSE]

\* _read_tag on a file holding bytes, from offset 0 and with no object yet.
decode(bytes) ==
    With(read_tag(bytes, 0, <<>>), LAMBDA r :
        [err |-> r.err, heap |-> IF r.err THEN <<>> ELSE r.heap,
         root |-> IF r.err THEN 0 ELSE r.id])

\* _write_tag of the root of a decoded tree.
encode(d) == write_tag(d.heap, d.heap[d.root])

Init ==
    /\ stream = <<>>
    /\ fed = 0
    /\ pc = "feed"
    /\ dec = NotRun
    /\ enc = NotWritten
    /\ redec = NotRun
    /\ look = NoLookup
    /\ find = NoFind
    /\ mut = NoMutation
    /\ offset = 0
    /\ stack = <<>>
    /\ dict = NoDict
    /\ fs = NoFiles
    /\ save = NotSaved

Feed(chunk) ==
    /\ pc = "feed"
    /\ fed < MaxChunks
    /\ stream' = stream \o chunk
    /\ fed' = fed + 1
    /\ UNCHANGED <<pc, dec, enc, redec, look, find, mut, offset, stack, dict, fs, save>>

Decode ==
    /\ pc = "feed"
    /\ dec' = decode(stream)
    /\ pc' = "decoded"
    /\ UNCHANGED <<stream, fed, enc, redec, look, find, mut, offset, stack, dict, fs, save>>

Encode ==
    /\ pc = "decoded"
    /\ ~dec.err
    /\ enc' = encode(dec)
    /\ pc' = "encoded"
    /\ UNCHANGED <<stream, fed, dec, redec, look, find, mut, offset, stack, dict, fs, save>>

Redecode ==
    /\ pc = "encoded"
    /\ ~enc.err
    /\ redec' = decode(enc.out)
    /\ pc' = "redecoded"
    /\ UNCHANGED <<stream, fed, dec, enc, look, find, mut, offset, stack, dict, fs, save>>

Next ==
    \/ \E chunk \in CodecChunks : Feed(chunk)
    \/ Decode
    \/ Encode
    \/ Redecode

Spec == Init /\ [][Next]_vars

(* The query runs: a file with a Compound root is produced tag by tag and  *)
(* read; get_lookup or find_tags is called on the tree read.               *)

QueryInit ==
    /\ stream \in QueryRoots
    /\ fed = 0
    /\ pc = "feed"
    /\ dec = NotRun
    /\ enc = NotWritten
    /\ redec = NotRun
    /\ look = NoLookup
    /\ find = NoFind
    /\ mut = NoMutation
    /\ offset = 0
    /\ stack = <<>>
    /\ dict = NoDict
    /\ fs = NoFiles
    /\ save = NotSaved

GetLookup(all_fully_qualified) ==
    /\ pc = "decoded"
    /\ ~dec.err
    /\ look' = [all_fully_qualified |-> all_fully_qualified] @@
                get_lookup(dec.heap, dec.root, all_fully_qualified)
    /\ pc' = "looked"
    /\ UNCHANGED <<stream, fed, dec, enc, redec, find, mut, offset, stack, dict, fs, save>>

FindTags(name_like, parents_like, types, case_insensitive) ==
    /\ pc = "decoded"
    /\ ~dec.err
    /\ find' = [name_like |-> name_like, parents_like |-> parents_like,
                types |-> types, case_insensitive |-> case_insensitive] @@
               find_tags(dec.heap, dec.root, name_like, parents_like, types,
                         case_insensitive)
    /\ pc' = "found"
    /\ UNCHANGED <<stream, fed, dec, enc, redec, look, mut, offset, stack, dict, fs, save>>

QueryNext ==
    \/ \E chunk \in QueryChunks : Feed(chunk)
    \/ Decode
    \/ \E all_fully_qualified \in BOOLEAN : GetLookup(all_fully_qualified)
    \/ \E name_like \in NameLikes, parents_like \in ParentsLikes,
          types \in TypesLists, case_insensitive \in BOOLEAN :
            FindTags(name_like, parents_like, types, case_insensitive)

QuerySpec == QueryInit /\ [][QueryNext]_vars

(* The conversion runs: a file with a Compound root is produced tag by tag *)
(* and read; nbt_to_dict is called on the tree read.                       *)

NbtToDict ==
    /\ pc = "decoded"
    /\ ~dec.err
    /\ dec.heap[dec.root].type = TAG_Compound
    /\ dict' = nbt_to_dict(dec.heap, dec.root)
    /\ pc' = "converted"
    /\ UNCHANGED <<stream, fed, dec, enc, redec, look, find, mut, offset, stack,
                   fs, save>>

DictNext ==
    \/ \E chunk \in QueryChunks : Feed(chunk)
    \/ Decode
    \/ NbtToDict

DictSpec == QueryInit /\ [][DictNext]_vars

(* The editing runs, as the script of src/main.py: a file is read, a tag   *)
(* is searched by name, the payload of a tag found is assigned, the tree   *)
(* is saved and the saved file is read.                                    *)

\* The values assigned to the payload of an integer tag.
NewPayloads == { [i |-> 7], [i |-> -1] }

\* asd = find_tags(parsed, ...)[j - 1]; asd.payload = payload
Mutate(j, payload) ==
    /\ pc = "found"
    /\ ~find.err
    /\ j \in 1..Len(find.result)
    /\ dec.heap[find.result[j]].type \in INTEGER_TYPES
    /\ dec' = [dec EXCEPT !.heap[find.result[j]].payload = payload]
    /\ mut' = [id |-> find.result[j], payload |-> payload]
    /\ pc' = "mutated"
    /\ UNCHANGED <<stream, fed, enc, redec, look, find, offset, stack, dict, fs, save>>

\* save_nbt_file(parsed, ...)
Save ==
    /\ pc = "mutated"
    /\ enc' = encode(dec)
    /\ pc' = "saved"
    /\ UNCHANGED <<stream, fed, dec, redec, look, find, mut, offset, stack, dict, fs, save>>

\* load_and_parse_nbt_file of the file saved
Load ==
    /\ pc = "saved"
    /\ ~enc.err
    /\ redec' = decode(enc.out)
    /\ pc' = "loaded"
    /\ UNCHANGED <<stream, fed, dec, enc, look, find, mut, offset, stack, dict, fs, save>>

MutateNext ==
    \/ \E chunk \in QueryChunks : Feed(chunk)
    \/ Decode
    \/ \E name_like \in NameLikes : FindTags(name_like, None, None, TRUE)
    \/ \E j \in 1..MaxChunks, payload \in NewPayloads : Mutate(j, payload)
    \/ Save
    \/ Load

MutateSpec == QueryInit /\ [][MutateNext]_vars

(* The construction runs: a tag is made with NBTTag.create, written with   *)
(* _write_tag, and the bytes written are read with _read_tag.              *)

\* The names tags are created with.
CreatedNames == { None, [s |-> <<>>], [s |-> <<120>>], [s |-> <<120, 121>>],
                  [s |-> <<233>>] }

\* The kinds and payloads tags are created with.
CreatedPayloads == {
    [type |-> TAG_Byte, payload |-> [i |-> 0]],
    [type |-> TAG_Byte, payload |-> [i |-> -1]],
    [type |-> TAG_Short, payload |-> [i |-> 5]],
    [type |-> TAG_Int, payload |-> [i |-> 3]],
    [type |-> TAG_Long, payload |-> [i |-> 9]],
    [type |-> TAG_String, payload |-> None],
    [type |-> TAG_String, payload |-> [s |-> <<>>]],
    [type |-> TAG_String, payload |-> [s |-> <<115>>]],
    [type |-> TAG_List, payload |-> [items |-> <<>>]],
    [type |-> TAG_Compound, payload |-> [ids |-> <<>>]] }

CreateInit ==
    /\ stream = <<>>
    /\ fed = 0
    /\ pc = "create"
    /\ dec = NotRun
    /\ enc = NotWritten
    /\ redec = NotRun
    /\ look = NoLookup
    /\ find = NoFind
    /\ mut = NoMutation
    /\ offset = 0
    /\ stack = <<>>
    /\ dict = NoDict
    /\ fs = NoFiles
    /\ save = NotSaved

\* NBTTag.create(type, name, payload)
Create(type, name, payload) ==
    /\ pc = "create"
    /\ dec' = [err |-> FALSE, heap |-> <<NBTTag_create(type, name, payload)>>,
               root |-> 1]
    /\ pc' = "created"
    /\ UNCHANGED <<stream, fed, enc, redec, look, find, mut, offset, stack, dict, fs, save>>

\* _write_tag(file, tag)
Write ==
    /\ pc = "created"
    /\ enc' = encode(dec)
    /\ pc' = "written"
    /\ UNCHANGED <<stream, fed, dec, redec, look, find, mut, offset, stack, dict, fs, save>>

\* _read_tag(file) of the bytes written
Read ==
    /\ pc = "written"
    /\ ~enc.err
    /\ redec' = decode(enc.out)
    /\ pc' = "read"
    /\ UNCHANGED <<stream, fed, dec, enc, look, find, mut, offset, stack, dict, fs, save>>

CreateNext ==
    \/ \E name \in CreatedNames, t \in CreatedPayloads :
            Create(t.type, name, t.payload)
    \/ Write
    \/ Read

CreateSpec == CreateInit /\ [][CreateNext]_vars

------------------------------------------------------------------------------
(* fileio.py.  The files are a function from the paths to what is there:   *)
(* Absent, or the content [gzipped, data] that was written.                *)

\* What open(filepath, 'wb') or gzip.open(filepath, 'wb') and the writes
\* made put at the path.
FileOf(gzipped, data) == [gzipped |-> gzipped, data |-> data]

\* os.path.exists(path)
exists(files, path) == files[path] # Absent

\* os.rename(src, dst)
rename(files, src, dst) == [files EXCEPT ![dst] = files[src], ![src] = Absent]

\* os.remove(path)
remove(files, path) == [files EXCEPT ![path] = Absent]

RECURSIVE continue_search(_, _)
\* __get_backup_filepath, lines 18-24: the first number whose path is free.
continue_search(files, number) ==
    IF exists(files, BackupPath(number))
    THEN continue_search(files, number + 1)
    ELSE BackupPath(number)

\* __get_backup_filepath(f'{filepath}.bak')
get_backup_filepath(files) == continue_search(files, 0)

\* save_nbt_file, lines 53-60, the try block: the file is opened, which
\* creates it empty unless opening fails, and the tag is written to it,
\* the bytes put out before _write_tag raised included.
try_write(files, written, gzipped, open_fails) ==
    IF open_fails THEN [err |-> TRUE, fs |-> files]
    ELSE [err |-> written.err,
          fs |-> [files EXCEPT ![Target] = FileOf(gzipped, written.out)]]

\* An except block that leaves the files as the failure left them.
revert_skipped(files, backup_created) == files

\* save_nbt_file, lines 61-68, the except block.
revert(files, backup_created) ==
    With(IF exists(files, Target) THEN remove(files, Target) ELSE files,
         LAMBDA removed :
         IF backup_created # None
         THEN rename(removed, backup_created, Target)
         ELSE removed)

\* save_nbt_file(nbt_tag, filepath, gzipped, override, create_backup), where
\* written is what _write_tag(file, nbt_tag) gives.
save_nbt_file(files, written, gzipped, override, create_backup, open_fails) ==
    IF ~override /\ exists(files, Target)
    THEN [raised |-> TRUE, fs |-> files, backup |-> None]
    ELSE
    With(IF override /\ exists(files, Target) /\ create_backup
         THEN get_backup_filepath(files) ELSE None,
         LAMBDA backup_created :
    With(IF override /\ exists(files, Target)
         THEN IF create_backup
              THEN rename(files, Target, backup_created)
              ELSE remove(files, Target)
         ELSE files,
         LAMBDA moved :
    With(try_write(moved, written, gzipped, open_fails), LAMBDA tried :
         IF tried.err
         THEN [raised |-> TRUE, fs |-> revert(tried.fs, backup_created),
               backup |-> backup_created]
         ELSE [raised |-> FALSE,
               fs |-> IF backup_created # None
                      THEN remove(tried.fs, backup_created)
                      ELSE tried.fs,
               backup |-> backup_created])))

(* The saving runs: beside the file there may be backup files; a tag is    *)
(* created and saved to the file.                                          *)

\* What is at the path of the file, and at the path of a backup, before.
OldContent == FileOf(TRUE, <<TAG_Compound, 0, 0, TAG_End>>)
OldBackup(number) == FileOf(FALSE, <<number>>)

InitialFiles ==
    { [path \in Paths |->
            IF path = Target
            THEN IF there THEN OldContent ELSE Absent
            ELSE IF path.number \in numbers
                 THEN OldBackup(path.number) ELSE Absent] :
        there \in BOOLEAN, numbers \in SUBSET (0..(MaxBackups - 1)) }

\* The tags saved: the tags created above, and a Byte whose payload is not
\* a byte, which _write_tag raises on after the header is written.
SavedPayloads ==
    CreatedPayloads \cup { [type |-> TAG_Byte, payload |-> [i |-> 300]] }

SaveInit ==
    /\ stream = <<>>
    /\ fed = 0
    /\ pc = "create"
    /\ dec = NotRun
    /\ enc = NotWritten
    /\ redec = NotRun
    /\ look = NoLookup
    /\ find = NoFind
    /\ mut = NoMutation
    /\ offset = 0
    /\ stack = <<>>
    /\ dict = NoDict
    /\ fs \in InitialFiles
    /\ save = NotSaved

SaveNbtFile(gzipped, override, create_backup, open_fails) ==
    /\ pc = "created"
    /\ \E r \in { save_nbt_file(fs, encode(dec), gzipped, override,
                                 create_backup, open_fails) } :
            /\ fs' = r.fs
            /\ save' = [gzipped |-> gzipped, override |-> override,
                        create_backup |-> create_backup,
                        open_fails |-> open_fails, before |-> fs,
                        backup |-> r.backup, raised |-> r.raised]
    /\ pc' = "stored"
    /\ UNCHANGED <<stream, fed, dec, enc, redec, look, find, mut, offset, stack,
                   dict>>

SaveNext ==
    \/ \E t \in SavedPayloads : Create(t.type, [s |-> <<120>>], t.payload)
    \/ \E gzipped \in BOOLEAN, override \in BOOLEAN, create_backup \in BOOLEAN,
          open_fails \in BOOLEAN :
            SaveNbtFile(gzipped, override, create_backup, open_fails)

SaveSpec == SaveInit /\ [][SaveNext]_vars

------------------------------------------------------------------------------
(* The reading runs: _read_tag followed read by read.  The stack holds the *)
(* calls and loops in progress, innermost last: "call" is a call of        *)
(* _read_tag, "while" the loop over the children of a Compound (each turn  *)
(* calls _read_tag), "for" the loop over the items of a list (each turn    *)
(* calls __read_tag_payload with the item type).  One step is taken for    *)
(* each tag header read, each list item started and each list loop ended.  *)

Frame(loop, list_tag_type, remaining) ==
    [loop |-> loop, list_tag_type |-> list_tag_type, remaining |-> remaining]

Pop(s) == SubSeq(s, 1, Len(s) - 1)

Top(s) == s[Len(s)]

Stepped(err, p, s) == [err |-> err, pos |-> p, stack |-> s]

\* __read_tag_payload up to its first loop turn: the payload of a scalar is
\* read whole, a list or a Compound starts its loop.
start_payload(bytes, p, s, tag_type) ==
    CASE tag_type = TAG_End -> Stepped(TRUE, p, s)
      [] tag_type \in INTEGER_TYPES ->
            Stepped(FALSE, read_nbt_int(bytes, p, TAG_TYPE_BYTE_LENGTHS[tag_type]).pos, s)
      [] tag_type \in {TAG_Float, TAG_Double} ->
            With(FileRead(bytes, p, TAG_TYPE_BYTE_LENGTHS[tag_type]), LAMBDA data :
                Stepped(Len(data) # TAG_TYPE_BYTE_LENGTHS[tag_type], p + Len(data), s))
      [] tag_type = TAG_Byte_Array ->
            With(read_nbt_int(bytes, p, 4), LAMBDA size :
            With(FileRead(bytes, size.pos, size.val), LAMBDA data :
                Stepped(Len(data) # 1, size.pos + Len(data), s)))
      [] tag_type = TAG_String ->
            With(read_nbt_string(bytes, p), LAMBDA r : Stepped(r.err, r.pos, s))
      [] tag_type \in LIST_TYPES ->
            With(IF tag_type = TAG_List THEN read_nbt_int(bytes, p, 1)
                 ELSE [pos |-> p,
                       val |-> IF tag_type = TAG_Int_Array THEN TAG_Int ELSE TAG_Long],
                 LAMBDA t :
                IF t.val \notin TagTypes THEN Stepped(TRUE, t.pos, s)
                ELSE With(read_nbt_int(bytes, t.pos, 4), LAMBDA list_length :
                     IF t.val = TAG_End THEN Stepped(FALSE, list_length.pos, s)
                     ELSE Stepped(FALSE, list_length.pos,
                                  Append(s, Frame("for", t.val, list_length.val)))))
      [] tag_type = TAG_Compound -> Stepped(FALSE, p, Append(s, Frame("while", NoType, 0)))

\* A Compound's loop that an End tag does not end.
after_end_ignored(s) == s

\* A _read_tag that takes a byte that is no tag type for an End tag.
read_header_lenient(bytes, p, s, ended) ==
    With(read_nbt_int(bytes, p, 1), LAMBDA byte_tag_type :
        IF byte_tag_type.val \notin TagTypes \/ byte_tag_type.val = TAG_End
        THEN Stepped(FALSE, byte_tag_type.pos, ended)
        ELSE With(read_nbt_string(bytes, byte_tag_type.pos), LAMBDA name :
             IF name.err THEN Stepped(TRUE, name.pos, s)
             ELSE start_payload(bytes, name.pos, s, byte_tag_type.val)))

\* The loops left when the tag _read_tag returns is an End tag: the call is
\* over, and when a Compound's loop made it, so is the loop (get_next = False).
after_end(s) == Pop(s)

\* _read_tag and __parse_tag_content up to the first loop turn of the payload.
\* s is the stack once this call has returned.
read_header(bytes, p, s, ended) ==
    With(read_nbt_int(bytes, p, 1), LAMBDA byte_tag_type :
        IF byte_tag_type.val \notin TagTypes THEN Stepped(TRUE, byte_tag_type.pos, s)
        ELSE IF byte_tag_type.val = TAG_End THEN Stepped(FALSE, byte_tag_type.pos, ended)
        ELSE With(read_nbt_string(bytes, byte_tag_type.pos), LAMBDA name :
             IF name.err THEN Stepped(TRUE, name.pos, s)
             ELSE start_payload(bytes, name.pos, s, byte_tag_type.val)))

Took(r) ==
    /\ offset' = r.pos
    /\ stack' = r.stack
    /\ pc' = IF r.err THEN "raised" ELSE "reading"

\* with file: result = _read_tag(file)
Open ==
    /\ pc = "feed"
    /\ offset' = 0
    /\ stack' = <<Frame("call", NoType, 0)>>
    /\ pc' = "reading"
    /\ UNCHANGED <<stream, fed, dec, enc, redec, look, find, mut, dict, fs, save>>

\* A call of _read_tag: by the caller of the decoder, or by a turn of a
\* Compound's loop.
ReadTag ==
    /\ pc = "reading"
    /\ stack # <<>>
    /\ Top(stack).loop \in {"call", "while"}
    /\ \E r \in { read_header(stream, offset,
                               IF Top(stack).loop = "call" THEN Pop(stack) ELSE stack,
                               after_end(stack)) } : Took(r)
    /\ UNCHANGED <<stream, fed, dec, enc, redec, look, find, mut, dict, fs, save>>

\* A turn of a list's loop: __read_tag_payload(file, list_tag_type).
ReadItem ==
    /\ pc = "reading"
    /\ stack # <<>>
    /\ Top(stack).loop = "for"
    /\ Top(stack).remaining > 0
    /\ \E r \in { start_payload(stream, offset,
                                 Append(Pop(stack), [Top(stack) EXCEPT !.remaining = @ - 1]),
                                 Top(stack).list_tag_type) } : Took(r)
    /\ UNCHANGED <<stream, fed, dec, enc, redec, look, find, mut, dict, fs, save>>

\* A list's loop has made range(list_length) turns: return items, list_tag_type.
EndItems ==
    /\ pc = "reading"
    /\ stack # <<>>
    /\ Top(stack).loop = "for"
    /\ Top(stack).remaining <= 0
    /\ stack' = Pop(stack)
    /\ UNCHANGED <<stream, fed, pc, dec, enc, redec, look, find, mut, offset, dict, fs, save>>

\* The outermost _read_tag returns the root tag.
Return ==
    /\ pc = "reading"
    /\ stack = <<>>
    /\ pc' = "returned"
    /\ UNCHANGED <<stream, fed, dec, enc, redec, look, find, mut, offset, stack, dict, fs, save>>

ReadSteps == ReadTag \/ ReadItem \/ EndItems \/ Return

ReadNext ==
    \/ \E chunk \in CodecChunks : Feed(chunk)
    \/ Open
    \/ ReadTag
    \/ ReadItem
    \/ EndItems
    \/ Return

\* A call that has started runs on: its steps are not put off for ever.
ReadSpec == Init /\ [][ReadNext]_vars /\ WF_vars(ReadSteps)

-----------------------------------------------------------------------------
(* What the claims are stated with.  The wire format as the specification  *)
(* gives it (sections 4.2, 6 and 7), read strictly: Wire_tag(b, pos) is    *)
(* [st, pos], st being "ok" (one tag ends at pos) or the first failure met:*)
(* "eof" (the stream ends inside a field), "invalid" (no such kind),       *)
(* "count" (a negative count), "end" (an End where a tag or list element   *)
(* is expected) or "encoding" (a string that is no UTF-8).                 *)

Wire(st, pos) == [st |-> st, pos |-> pos]

Wire_string(b, pos) ==
    IF pos + 2 > Len(b) THEN Wire("eof", pos)
    ELSE LET n == FromBytesUnsigned(SubSeq(b, pos + 1, pos + 2))
         IN  IF pos + 2 + n > Len(b) THEN Wire("eof", pos)
             ELSE IF Utf8Decode(SubSeq(b, pos + 3, pos + 2 + n)).err
                  THEN Wire("encoding", pos)
                  ELSE Wire("ok", pos + 2 + n)

RECURSIVE Wire_tag(_, _)
RECURSIVE Wire_payload(_, _, _)
RECURSIVE Wire_items(_, _, _, _)
RECURSIVE Wire_children(_, _)

Wire_items(b, pos, kind, n) ==
    IF n = 0 THEN Wire("ok", pos)
    ELSE LET r == Wire_payload(b, pos, kind)
         IN  IF r.st # "ok" THEN r ELSE Wire_items(b, r.pos, kind, n - 1)

Wire_children(b, pos) ==
    IF pos >= Len(b) THEN Wire("eof", pos)
    ELSE IF b[pos + 1] = TAG_End THEN Wire("ok", pos + 1)
    ELSE LET r == Wire_tag(b, pos)
         IN  IF r.st # "ok" THEN r ELSE Wire_children(b, r.pos)

Wire_counted(b, pos, kind) ==
    IF pos + 4 > Len(b) THEN Wire("eof", pos)
    ELSE LET n == FromBytesSigned(SubSeq(b, pos + 1, pos + 4))
         IN  IF kind = TAG_End THEN Wire(IF n = 0 THEN "ok" ELSE "end", pos + 4)
             ELSE IF n < 0 THEN Wire("count", pos)
             ELSE IF kind = TAG_Byte_Array
                  THEN (IF pos + 4 + n > Len(b) THEN Wire("eof", pos)
                        ELSE Wire("ok", pos + 4 + n))
                  ELSE Wire_items(b, pos + 4, kind, n)

Wire_payload(b, pos, kind) ==
    CASE kind \in INTEGER_TYPES \cup {TAG_Float, TAG_Double} ->
            IF pos + TAG_TYPE_BYTE_LENGTHS[kind] > Len(b) THEN Wire("eof", pos)
            ELSE Wire("ok", pos + TAG_TYPE_BYTE_LENGTHS[kind])
      [] kind = TAG_Byte_Array -> Wire_counted(b, pos, TAG_Byte_Array)
      [] kind = TAG_String -> Wire_string(b, pos)
      [] kind = TAG_List ->
            IF pos >= Len(b) THEN Wire("eof", pos)
            ELSE IF b[pos + 1] \notin TagTypes THEN Wire("invalid", pos)
            ELSE Wire_counted(b, pos + 1, b[pos + 1])
      [] kind = TAG_Int_Array -> Wire_counted(b, pos, TAG_Int)
      [] kind = TAG_Long_Array -> Wire_counted(b, pos, TAG_Long)
      [] kind = TAG_Compound -> Wire_children(b, pos)
      [] OTHER -> Wire("end", pos)

Wire_tag(b, pos) ==
    IF pos >= Len(b) THEN Wire("eof", pos)
    ELSE IF b[pos + 1] \notin TagTypes THEN Wire("invalid", pos)
    ELSE IF b[pos + 1] = TAG_End THEN Wire("end", pos)
    ELSE LET name == Wire_string(b, pos + 1)
         IN  IF name.st # "ok" THEN name
             ELSE Wire_payload(b, name.pos, b[pos + 1])

\* b is exactly one well-formed tag.
WellFormed(b) == Wire_tag(b, 0) = Wire("ok", Len(b))

\* Structural equality of two trees: kinds, names, payload values, list
\* element kinds and children, in order, at every level.
RECURSIVE TagEq(_, _, _, _)
RECURSIVE ValEq(_, _, _, _)

ValEq(h1, v1, h2, v2) ==
    CASE IsIds(v1) /\ IsIds(v2) ->
            /\ Len(v1.ids) = Len(v2.ids)
            /\ \A k \in 1..Len(v1.ids) : TagEq(h1, v1.ids[k], h2, v2.ids[k])
      [] IsItems(v1) /\ IsItems(v2) ->
            /\ Len(v1.items) = Len(v2.items)
            /\ \A k \in 1..Len(v1.items) : ValEq(h1, v1.items[k], h2, v2.items[k])
      [] OTHER -> v1 = v2

TagEq(h1, id1, h2, id2) ==
    /\ h1[id1].type = h2[id2].type
    /\ h1[id1].name = h2[id2].name
    /\ h1[id1].list_type = h2[id2].list_type
    /\ ValEq(h1, h1[id1].payload, h2, h2[id2].payload)

\* The root tag read from the stream.
Root == dec.heap[dec.root]

Decoded == pc \in {"decoded", "encoded", "redecoded", "looked", "found"} /\ ~dec.err

\* The tags reachable from tag id through Compound payloads, id included.
RECURSIVE Reach(_, _)
Reach(heap, id) ==
    {id} \cup
    IF heap[id].type = TAG_Compound
    THEN UNION { Reach(heap, heap[id].payload.ids[k]) :
                 k \in 1..Len(heap[id].payload.ids) }
    ELSE {}

\* The named tags of the tree read.
Named == { n \in Reach(dec.heap, dec.root) : Truthy(dec.heap[n].name) }

ShortName(n) == dec.heap[n].name.s

QualifiedName(n) == get_full_qualified_name(dec.heap, n)

HasEntry(d, key, n) == \E j \in 1..Len(d) : d[j].k = key /\ d[j].v = n

\* A filter of find_tags is supplied when it is neither None nor empty.
Supplied(v) == ~IsNone(v) /\ v \notin {[s |-> <<>>], [items |-> <<>>]}

\* Both sides of a comparison are lower-cased when the search ignores case.
Norm(str) == IF find.case_insensitive THEN lower(str) ELSE str

\* The index of the last separator of key, 0 when it has none.
LastSep(key) ==
    IF \E j \in 1..Len(key) : key[j] = FULLY_QUALIFIED_SEPARATOR
    THEN CHOOSE j \in 1..Len(key) :
            /\ key[j] = FULLY_QUALIFIED_SEPARATOR
            /\ \A i \in (j + 1)..Len(key) : key[i] # FULLY_QUALIFIED_SEPARATOR
    ELSE 0

\* The leaf name of a qualified key: what follows its last separator.
LeafName(key) == SubSeq(key, LastSep(key) + 1, Len(key))

\* seg is one of the parent segments of key: a piece of what precedes the
\* last separator, from one separator (or the start) to the next (or the end).
IsParentSegment(seg, key) ==
    \E i \in 1..LastSep(key), j \in 0..(LastSep(key) - 1) :
        /\ j >= i - 1
        /\ SubSeq(key, i, j) = seg
        /\ (i = 1 \/ key[i - 1] = FULLY_QUALIFIED_SEPARATOR)
        /\ key[j + 1] = FULLY_QUALIFIED_SEPARATOR
        /\ \A m \in i..j : key[m] # FULLY_QUALIFIED_SEPARATOR

\* At least one supplied filter of the find_tags call matches the entry.
Matches(e) ==
    \/ /\ Supplied(find.name_like)
       /\ str_in(Norm(find.name_like.s), LeafName(Norm(e.k)))
    \/ /\ Supplied(find.parents_like)
       /\ IsParentSegment(Norm(find.parents_like.s), Norm(e.k))
    \/ /\ Supplied(find.types)
       /\ \E j \in 1..Len(find.types.items) : find.types.items[j] = dec.heap[e.v].type

\* The values of the entries of d that match, in the order of d.
MatchingValues(d) ==
    LET kept == SelectSeq(d, Matches) IN [j \in 1..Len(kept) |-> kept[j].v]

QualifiedLookup == get_lookup(dec.heap, dec.root, TRUE)

RECURSIVE ConcatTags(_, _, _)
\* The full tags of the children ids[k..], as _write_tag writes them.
ConcatTags(heap, ids, k) ==
    IF k > Len(ids) THEN <<>>
    ELSE write_tag(heap, heap[ids[k]]).out \o ConcatTags(heap, ids, k + 1)

-----------------------------------------------------------------------------
(* The claims *)

\* C1 (as claimed): every tree decode produces can be written, the bytes
\* written can be decoded, and the tree they give is structurally equal to
\* the first one.
C1_RoundTrip ==
    /\ (pc = "encoded" => ~enc.err)
    /\ (pc = "redecoded" =>
            ~redec.err /\ TagEq(dec.heap, dec.root, redec.heap, redec.root))

\* C2 (as claimed): for a well-formed byte sequence, encoding the decoded
\* tree writes exactly the bytes read.
C2_ByteIdentical ==
    (pc = "encoded" /\ WellFormed(stream)) => (~enc.err /\ enc.out = stream)

\* C3 (as claimed): a Compound is written as its header, its children as full
\* tags in stored order, and one End byte 0x00 (so a Compound with no child
\* has the one-byte payload 0x00); and a 0x00 right after a Compound header
\* decodes to no children.
C3_CompoundTermination ==
    /\ (pc = "encoded" /\ Root.type = TAG_Compound /\ ~enc.err) =>
            enc.out = <<TAG_Compound>> \o write_nbt_string(Root.name).out
                      \o ConcatTags(dec.heap, Root.payload.ids, 1) \o <<0>>
    /\ (Decoded /\ Root.type = TAG_Compound
            /\ Wire_string(stream, 1).st = "ok"
            /\ Wire_string(stream, 1).pos < Len(stream)
            /\ stream[Wire_string(stream, 1).pos + 1] = 0) =>
            Root.payload.ids = <<>>

\* C4 (as claimed): a List with no element kind is written as kind byte 9,
\* the name, the member-kind byte 0 and a 4-byte count of 0, and those bytes
\* decode to a List with an empty payload and no element kind.
C4_EmptyList ==
    (pc = "encoded" /\ Root.type = TAG_List /\ Root.list_type = NoType) =>
        LET bytes == <<TAG_List>> \o write_nbt_string(Root.name).out
                     \o <<0, 0, 0, 0, 0>>
            back == decode(bytes)
        IN  /\ ~enc.err
            /\ enc.out = bytes
            /\ ~back.err
            /\ back.heap[back.root].type = TAG_List
            /\ back.heap[back.root].payload = [items |-> <<>>]
            /\ back.heap[back.root].list_type = NoType

\* C5 (as claimed): when the stream ends inside a field, decode fails.
C5_Truncation ==
    (pc = "decoded" /\ Wire_tag(stream, 0).st = "eof") => dec.err

\* C6 (as claimed): decode fails when an End stands where a tag or a list
\* element is expected, and never returns a root tag of kind End.
C6_UnexpectedEnd ==
    /\ (pc = "decoded" /\ Wire_tag(stream, 0).st = "end") => dec.err
    /\ (Decoded => Root.type # TAG_End)

\* C7 (as claimed): in the lookup with short names, a named tag whose short
\* name is shared by another named tag is present under its fully-qualified
\* key, and not under the short name. Stated for the tags whose
\* fully-qualified name no other tag has, which can all have a key of their own.
C7_Disambiguation ==
    (pc = "looked" /\ ~look.all_fully_qualified /\ ~look.err) =>
        \A n \in Named :
            (/\ \E m \in Named : m # n /\ ShortName(m) = ShortName(n)
             /\ \A m \in Named : m # n => QualifiedName(m) # QualifiedName(n)) =>
                /\ HasEntry(look.d, QualifiedName(n), n)
                /\ (QualifiedName(n) # ShortName(n) =>
                        ~HasEntry(look.d, ShortName(n), n))

\* C8: get_lookup with all_fully_qualified=True raises exactly when two
\* distinct named tags reachable through compounds have the same
\* fully-qualified name.
C8_QualifiedCollision ==
    (pc = "looked" /\ look.all_fully_qualified) =>
        (look.err <=>
            \E n \in Named, m \in Named :
                n # m /\ QualifiedName(n) = QualifiedName(m))

\* C8 witness: the call raised for two tags that have different parents.
C8_Witness ==
    /\ pc = "looked"
    /\ look.all_fully_qualified
    /\ look.err
    /\ \E n \in Named, m \in Named :
            /\ QualifiedName(n) = QualifiedName(m)
            /\ dec.heap[n].parent # dec.heap[m].parent

C10_NameSearch ==
    (pc = "found" /\ Supplied(find.name_like) /\ find.case_insensitive) =>
        /\ ~find.err
        /\ \A n \in Named :
                str_in(lower(find.name_like.s), lower(ShortName(n))) =>
                    \E j \in 1..Len(find.result) : find.result[j] = n

\* C11 (as claimed): after the payload of a tag returned by find_tags is
\* assigned a value valid for its kind, the tree is saved and the saved bytes
\* are read, the tree read has the new payload at the tag's place and is
\* equal to the tree in memory everywhere else.
C11_MutationPersisted ==
    /\ (pc = "saved" => ~enc.err)
    /\ (pc = "loaded" =>
            /\ ~redec.err
            /\ dec.heap[mut.id].payload = mut.payload
            /\ TagEq(dec.heap, dec.root, redec.heap, redec.root))

\* The name of a tag is None or the empty string.
SentinelName(tag) == tag.name \in {None, [s |-> <<>>]}

\* C12: a tag whose name is None and a tag whose name is the empty string are
\* both written with the 2-byte zero length prefix and no name bytes (the
\* payload follows at once, so the two are written alike); reading a zero
\* length prefix reads nothing after it and gives None as the name.
C12_StringSentinel ==
    /\ (pc \in {"written", "read"} /\ SentinelName(Root)) =>
            /\ ~enc.err
            /\ enc.out = <<Root.type, 0, 0>> \o write_tag_payload(dec.heap, Root).out
            /\ enc.out = write_tag(dec.heap, [Root EXCEPT !.name = None]).out
            /\ enc.out = write_tag(dec.heap, [Root EXCEPT !.name = [s |-> <<>>]]).out
            /\ read_nbt_string(enc.out, 1) = [err |-> FALSE, pos |-> 3, val |-> None]
    /\ (pc = "read" /\ SentinelName(Root)) =>
            /\ ~redec.err
            /\ redec.heap[redec.root].name = None

\* C12 witness: a tag named with the empty string was written and read back
\* with the name None.
C12_Witness ==
    /\ pc = "read"
    /\ Root.name = [s |-> <<>>]
    /\ ~redec.err
    /\ redec.heap[redec.root].name = None

\* The tags of a payload value: the children of a Compound, the children of
\* the Compound elements of a List, and the tags of their payloads.
RECURSIVE TagsIn(_, _)
TagsIn(heap, v) ==
    CASE IsIds(v) ->
            UNION { {v.ids[k]} \cup TagsIn(heap, heap[v.ids[k]].payload) :
                    k \in 1..Len(v.ids) }
      [] IsItems(v) -> UNION { TagsIn(heap, v.items[k]) : k \in 1..Len(v.items) }
      [] OTHER -> {}

\* C13 (as claimed): in a tree read, every tag below the root was read as a
\* child of a Compound and has that Compound as its parent, no child is an
\* End tag, the children are kept in the order read, and only the root has
\* no parent.
C13_ParentInvariant ==
    Decoded =>
        /\ Root.parent = NoParent
        /\ \A t \in TagsIn(dec.heap, Root.payload) :
                /\ dec.heap[t].type # TAG_End
                /\ dec.heap[t].parent # NoParent
                /\ dec.heap[dec.heap[t].parent].type = TAG_Compound
                /\ \E k \in 1..Len(dec.heap[dec.heap[t].parent].payload.ids) :
                        dec.heap[dec.heap[t].parent].payload.ids[k] = t
        /\ \A c \in {dec.root} \cup TagsIn(dec.heap, Root.payload) :
                dec.heap[c].type = TAG_Compound =>
                    \A j, k \in 1..Len(dec.heap[c].payload.ids) :
                        j < k => dec.heap[c].payload.ids[j] < dec.heap[c].payload.ids[k]

\* The small steps and the whole reader agree: a run that has returned read
\* what _read_tag reads and _read_tag gives a tree, a run that has raised
\* means _read_tag raises.
StepsAgree ==
    /\ (pc = "returned" =>
            ~read_tag(stream, 0, <<>>).err /\ offset = read_tag(stream, 0, <<>>).pos)
    /\ (pc = "raised" =>
            read_tag(stream, 0, <<>>).err /\ offset = read_tag(stream, 0, <<>>).pos)

\* C19: once _read_tag has started on a stream it returns or raises after
\* finitely many steps, also when the stream runs out inside a Compound; it
\* returns exactly when the reader as a whole gives a tree; and no step moves
\* the offset backwards.
C19_DecoderTermination ==
    /\ (pc = "reading") ~> (pc \in {"returned", "raised"})
    /\ []StepsAgree
    /\ [][offset' >= offset]_vars

\* C19 witness: _read_tag has returned from a stream that begins a Compound
\* and runs out before the End byte that closes it.
C19_Witness ==
    /\ pc = "returned"
    /\ stream # <<>>
    /\ stream[1] = TAG_Compound
    /\ Wire_tag(stream, 0).st = "eof"
    /\ offset = Len(stream)

\* The byte at offset p of the stream is there and is no tag type.
NoKindAt(p) == p < Len(stream) /\ stream[p + 1] \notin TagTypes

\* The step the reader is about to take reads a kind byte that is no tag
\* type: the kind byte of a tag header, the element-kind byte of a List whose
\* header is read in that step, or the element-kind byte of a List that is an
\* item of a list.
BadKindAhead ==
    /\ pc = "reading"
    /\ stack # <<>>
    /\ \/ /\ Top(stack).loop \in {"call", "while"}
          /\ \/ NoKindAt(offset)
             \/ /\ offset < Len(stream)
                /\ stream[offset + 1] = TAG_List
                /\ Wire_string(stream, offset + 1).st = "ok"
                /\ NoKindAt(Wire_string(stream, offset + 1).pos)
       \/ /\ Top(stack).loop = "for"
          /\ Top(stack).remaining > 0
          /\ Top(stack).list_tag_type = TAG_List
          /\ NoKindAt(offset)

\* C14: a step of the reader that reads a kind byte that is no tag type, in
\* a tag header or as a List's element kind and at any depth, raises; a
\* stream whose strict reading meets such a byte is never returned from; and
\* a run that has raised gives no tree.
C14_UnknownKind ==
    /\ [][BadKindAhead => pc' = "raised"]_vars
    /\ [](pc = "returned" => Wire_tag(stream, 0).st # "invalid")
    /\ [](pc = "raised" => decode(stream).err /\ decode(stream).root = 0)

\* C14 witness: the reader has raised on a kind byte that is no tag type,
\* read two loops deep.
C14_Witness ==
    /\ pc = "raised"
    /\ Len(stack) >= 2
    /\ offset > 0
    /\ stream[offset] \notin TagTypes
    /\ Wire_tag(stream, 0) = Wire("invalid", offset - 1)

\* The name of a tag as a string, empty when the tag has none.
NameOf(n) == IF Truthy(dec.heap[n].name) THEN dec.heap[n].name.s ELSE <<>>

\* The names of the ancestors of n from the one just below the root down to
\* the parent of n, then the name of n, joined with the separator.
RECURSIVE PathBelowRoot(_)
PathBelowRoot(n) ==
    IF n = dec.root \/ dec.heap[n].parent \in {NoParent, dec.root}
    THEN NameOf(n)
    ELSE PathBelowRoot(dec.heap[n].parent) \o <<FULLY_QUALIFIED_SEPARATOR>> \o NameOf(n)

\* C15 (as claimed): every key of the fully-qualified lookup is the path of
\* its tag below the root: the root's own name is no part of it.
C15_QualifiedKey ==
    (pc = "looked" /\ look.all_fully_qualified /\ ~look.err) =>
        \A j \in 1..Len(look.d) : look.d[j].k = PathBelowRoot(look.d[j].v)

\* C18 (as claimed): when no two named tags have the same fully-qualified
\* name, the lookup with short names holds every named tag reachable through
\* compounds as the value of exactly one key, and no other tag: renaming
\* colliding entries drops no entry.
C18_LookupCompleteness ==
    (/\ pc = "looked" /\ ~look.all_fully_qualified /\ ~look.err
     /\ \A n \in Named, m \in Named :
            n # m => QualifiedName(n) # QualifiedName(m)) =>
        /\ \A n \in Named :
                Cardinality({ j \in 1..Len(look.d) : look.d[j].v = n }) = 1
        /\ \A j \in 1..Len(look.d) : look.d[j].v \in Named

RECURSIVE MapsChildren(_, _, _)
\* The dict d has the names of the children of the Compound c as its keys,
\* each once, and maps the name of a child to the dict of the child when the
\* child is a Compound, made the same way, and to the payload of the child
\* otherwise.  With lastOnly, this is asked of the last child of each name.
MapsChildren(c, d, lastOnly) ==
    LET ids == dec.heap[c].payload.ids
        child(k) == dec.heap[ids[k]]
        Asked(k) == lastOnly =>
                        \A l \in (k + 1)..Len(ids) : child(l).name # child(k).name
    IN  /\ \A j \in 1..Len(d) : \E k \in 1..Len(ids) : child(k).name = d[j].k
        /\ \A j \in 1..Len(d), l \in 1..Len(d) : d[j].k = d[l].k => j = l
        /\ \A k \in 1..Len(ids) :
                Asked(k) =>
                    /\ DictHas(d, child(k).name)
                    /\ IF child(k).type = TAG_Compound
                       THEN /\ "dict" \in DOMAIN DictGet(d, child(k).name)
                            /\ MapsChildren(ids[k],
                                            DictGet(d, child(k).name).dict,
                                            lastOnly)
                       ELSE DictGet(d, child(k).name) = child(k).payload

\* C16 (as claimed): nbt_to_dict of a Compound maps the name of each child
\* to the nested dict of the child when it is a Compound and to the payload
\* of the child otherwise, at every depth.
C16_NestedMapping ==
    pc = "converted" => MapsChildren(dec.root, dict, FALSE)

\* C16 (amended): nbt_to_dict of a Compound has one key for each name its
\* children have, mapped to the nested dict of the last child of that name
\* when that child is a Compound and to its payload otherwise, at every
\* depth; the call leaves the tree as it was.
C16_LastChildMapping ==
    /\ [](pc = "converted" => MapsChildren(dec.root, dict, TRUE))
    /\ [][pc' = "converted" => dec' = dec]_vars

\* C16 witness: a conversion of a tree in which two children of the root
\* have one name, that gave a nested dict with entries and a payload.
C16_Witness ==
    /\ pc = "converted"
    /\ Len(dict) < Len(dec.heap[dec.root].payload.ids)
    /\ \E j \in 1..Len(dict) :
            "dict" \in DOMAIN dict[j].v /\ dict[j].v.dict # <<>>
    /\ \E j \in 1..Len(dict) : IsInt(dict[j].v)

\* The save failed in the try block: the file could not be opened, or
\* _write_tag raised.
TryFailed == save.open_fails \/ encode(dec).err

\* C17: save_nbt_file (a) with override false and the file there raises and
\* leaves every file as it was; (b) with override and create_backup true and
\* the file there, when opening or writing fails it raises, the file holds
\* what it held before, the backup the call made is gone and the backups
\* that were there are as they were; when it succeeds the file holds what
\* was written and the backup the call made is gone.
C17_SaveFailure ==
    pc = "stored" =>
        /\ (~save.override /\ exists(save.before, Target)) =>
                save.raised /\ fs = save.before
        /\ (save.override /\ save.create_backup /\ exists(save.before, Target)
                /\ TryFailed) =>
                /\ save.raised
                /\ fs[Target] = save.before[Target]
                /\ save.backup \in Paths \ {Target}
                /\ ~exists(save.before, save.backup)
                /\ ~exists(fs, save.backup)
                /\ \A path \in Paths \ {Target} : fs[path] = save.before[path]
        /\ ~save.raised =>
                /\ fs[Target] = FileOf(save.gzipped, encode(dec).out)
                /\ save.backup # None => ~exists(fs, save.backup)
                /\ \A path \in Paths \ {Target} : fs[path] = save.before[path]
        /\ save.raised <=>
                \/ ~save.override /\ exists(save.before, Target)
                \/ TryFailed

\* C17 witness: a save over a file with a backup file ".bak" beside it, in
\* which _write_tag raised after bytes were written: the call made the
\* backup ".bak1", raised and put the file back.
C17_Witness ==
    /\ pc = "stored"
    /\ save.override /\ save.create_backup /\ ~save.open_fails
    /\ exists(save.before, Target)
    /\ exists(save.before, BackupPath(0))
    /\ encode(dec).err /\ encode(dec).out # <<>>
    /\ save.backup = BackupPath(1)
    /\ save.raised
    /\ fs = save.before

====
